---------------------------- MODULE Spec2Model ----------------------------
(***************************************************************************)
(* A model of esp32_flashlogs: a circular log of fixed-size entries kept   *)
(* in a NOR-flash partition (src/esp32_flashlogs.cpp, .h).                 *)
(*                                                                         *)
(* The flash partition is modelled as its header block and the slots that  *)
(* follow FLASHLOG_SLOT0, seen through the geometry of the header that was *)
(* last written.  The RAM-resident flashlog_state_t is the record st.      *)
(* Every API function is a pure operator from (state, flash, inputs) to a  *)
(* result record [st, fl, ret, io]; the actions apply these operators.     *)
(***************************************************************************)
EXTENDS Integers, Sequences, FiniteSets, TLC

(***************************************************************************)
(* Program constants                                                       *)
(***************************************************************************)
FLASHLOG_SLOT0 == 4096
ERASE_SIZE == 4096
ENTRY_HDR_SIZE == 4
HDR_SIZE == 16
\* 0xFFFFFFFF; a uint32_t is held as its 32-bit two's-complement pattern
UINT32_MAX == -1
FLASHLOG_ID == "flashlog"

ESP_OK == "ESP_OK"
ESP_FAIL == "ESP_FAIL"
ESP_ERR_INVALID_ARG == "ESP_ERR_INVALID_ARG"
ESP_ERR_INVALID_SIZE == "ESP_ERR_INVALID_SIZE"

FLASHLOG_ERR_OK == "FLASHLOG_ERR_OK"
FLASHLOG_ERR_NO_PARTITION == "FLASHLOG_ERR_NO_PARTITION"
FLASHLOG_ERR_BADSIZE == "FLASHLOG_ERR_BADSIZE"
FLASHLOG_ERR_READERR == "FLASHLOG_ERR_READERR"
FLASHLOG_ERR_NOINIT == "FLASHLOG_ERR_NOINIT"
FLASHLOG_ERR_WRITEERR == "FLASHLOG_ERR_WRITEERR"
FLASHLOG_ERR_ERASEERR == "FLASHLOG_ERR_ERASEERR"
FLASHLOG_ERR_NOMEM == "FLASHLOG_ERR_NOMEM"
FLASHLOG_ERR_BADSLOT == "FLASHLOG_ERR_BADSLOT"
\* the processor's integer-divide-by-zero exception (no flashlog_error value)
TRAP == "TRAP"

(***************************************************************************)
(* Bounds of the model                                                     *)
(***************************************************************************)
\* partition sizes are 1..MaxBlocks erase units
MaxBlocks == 3
\* flashlog_add is not called once highest_seqno has reached MaxSeq
MaxSeq == 9
\* the size check is exercised for datasize in -MaxNegSize..MaxDataSize
MaxNegSize == 8
MaxDataSize == 4100
\* flashlog_open is called on a state object that holds a buffer only while
\* fewer than MaxLive buffers are allocated
MaxLive == 3
\* the caller sets state->current to values from MaxOut below slot 0 to
\* MaxOut past the last slot
MaxOut == 1
\* a Block Store failure is injected at call number 1..MaxFailAt of an API call
MaxFailAt == 3
\* a used state object is passed to flashlog_open only while its numinuse,
\* which that call counts up further, is below MaxStale
MaxStale == 5
\* at most MaxFaults Block Store calls and mallocs fail in a run
MaxFaults == 2

\* the datasize values the log is opened with (100 is rejected)
DataSizes == {2044, 4092, 100}
\* the datasize values of the rings the range check of flashlog_read is
\* exercised on: 4, 2 and 1 slots per erase unit
RangeDataSizes == {1020, 2044, 4092}
\* the user data a caller puts at state->logdata
LogData == {"A", "B"}
PartitionSizes == {b * ERASE_SIZE : b \in 1..MaxBlocks}

(***************************************************************************)
(* 32-bit integer arithmetic                                               *)
(***************************************************************************)
\* A 32-bit value, signed or unsigned, is the integer in -2^31..2^31-1 with
\* the same bit pattern; the unsigned operations are defined on patterns.
INT32_MAX == 2147483647
IncU32(x) == IF x = INT32_MAX THEN (0 - INT32_MAX) - 1 ELSE x + 1
ULess(a, b) == IF (a < 0) = (b < 0) THEN a < b ELSE b < 0
\* a / b for unsigned a < 2^31 and unsigned b # 0
UDiv(a, b) == IF b < 0 THEN 0 ELSE a \div b

\* bitwise and of two patterns (\div rounds down: an arithmetic shift)
RECURSIVE BitAnd(_, _)
BitAnd(a, b) ==
  IF a = 0 \/ b = 0 THEN 0
  ELSE IF a = -1 THEN b
  ELSE IF b = -1 THEN a
  ELSE (a % 2) * (b % 2) + 2 * BitAnd(a \div 2, b \div 2)

(***************************************************************************)
(* The flash partition (the Block Store)                                   *)
(***************************************************************************)
ErasedHdr == [id |-> "erased", datasize |-> -1, numslots |-> -1]
GarbageHdr == [id |-> "garbage", datasize |-> 2044, numslots |-> 3]
ErasedSlot == [seqno |-> UINT32_MAX, data |-> "erased"]
NoSlots == [i \in {} |-> ErasedSlot]

SlotLen(fl) == fl.hdr.datasize + ENTRY_HDR_SIZE
SlotOffset(fl, i) == FLASHLOG_SLOT0 + i * SlotLen(fl)
SlotIndex(fl, offset) == (offset - FLASHLOG_SLOT0) \div SlotLen(fl)

IoCall(op, offset, len, err) == [op |-> op, offset |-> offset, len |-> len, err |-> err]

\* programming NOR flash can only clear bits
ProgramData(old, new) ==
  IF old = "erased" THEN new ELSE IF old = new THEN old ELSE "corrupt"
ProgramSlot(old, new) ==
  [seqno |-> BitAnd(old.seqno, new.seqno), data |-> ProgramData(old.data, new.data)]

esp_partition_read(fl, psize, offset, len, fails) ==
  IF fails THEN [err |-> ESP_FAIL, data |-> ErasedSlot]
  ELSE IF offset < 0 \/ offset + len > psize
    THEN [err |-> ESP_ERR_INVALID_SIZE, data |-> ErasedSlot]
  ELSE IF offset = 0 THEN [err |-> ESP_OK, data |-> fl.hdr]
  ELSE IF SlotIndex(fl, offset) \in DOMAIN fl.slots
    THEN [err |-> ESP_OK, data |-> fl.slots[SlotIndex(fl, offset)]]
  ELSE [err |-> ESP_OK, data |-> ErasedSlot]

esp_partition_erase_range(fl, psize, offset, size, fails) ==
  IF fails THEN [err |-> ESP_FAIL, fl |-> fl]
  ELSE IF offset < 0 \/ offset > psize \/ offset % ERASE_SIZE # 0
    THEN [err |-> ESP_ERR_INVALID_ARG, fl |-> fl]
  ELSE IF offset + size > psize \/ size % ERASE_SIZE # 0
    THEN [err |-> ESP_ERR_INVALID_SIZE, fl |-> fl]
  ELSE [err |-> ESP_OK,
        fl |-> [hdr |-> IF offset = 0 /\ size > 0 THEN ErasedHdr ELSE fl.hdr,
                slots |-> [i \in DOMAIN fl.slots |->
                   IF SlotOffset(fl, i) < offset + size
                      /\ SlotOffset(fl, i) + SlotLen(fl) > offset
                   THEN ErasedSlot ELSE fl.slots[i]]]]

\* a header written over an erased partition fixes the slot geometry
LayoutSlots(fl, hdr) ==
  IF \A i \in DOMAIN fl.slots : fl.slots[i] = ErasedSlot
  THEN [i \in 0..(hdr.numslots - 1) |-> ErasedSlot]
  ELSE fl.slots

esp_partition_write(fl, psize, offset, data, len, fails) ==
  IF fails THEN [err |-> ESP_FAIL, fl |-> fl]
  ELSE IF offset < 0 \/ offset + len > psize
    THEN [err |-> ESP_ERR_INVALID_SIZE, fl |-> fl]
  ELSE IF offset = 0
    THEN [err |-> ESP_OK,
          fl |-> [hdr |-> IF fl.hdr = ErasedHdr THEN data
                          ELSE [data EXCEPT !.id = "corrupt"],
                  slots |-> LayoutSlots(fl, data)]]
  ELSE IF SlotIndex(fl, offset) \in DOMAIN fl.slots
    THEN [err |-> ESP_OK,
          fl |-> [fl EXCEPT !.slots[SlotIndex(fl, offset)] =
                      ProgramSlot(fl.slots[SlotIndex(fl, offset)], data)]]
  ELSE [err |-> ESP_OK, fl |-> fl]

(***************************************************************************)
(* struct flashlog_state_t                                                 *)
(***************************************************************************)
\* the content of a buffer that malloc returned and nobody wrote yet
NoBuf == [seqno |-> 0, data |-> "uninit"]

\* a zero-initialised state object (a global or a static local)
ZeroState ==
  [partition |-> FALSE, entrybuf |-> FALSE, logdata |-> FALSE, buf |-> NoBuf,
   datasize |-> 0, numslots |-> 0, highest_seqno |-> 0, numinuse |-> 0,
   newest |-> 0, oldest |-> 0, current |-> 0, partition_err |-> ESP_OK]

Result(s, fl, ret, io) == [st |-> s, fl |-> fl, ret |-> ret, io |-> io]


(***************************************************************************)
(* flashlog_open                                                           *)
(***************************************************************************)
\* int entrysize = datasize + sizeof(struct flashlog_entry_hdr_t)
EntrySize(datasize) == datasize + ENTRY_HDR_SIZE

\* entrysize > 4096 || (entrysize & (entrysize - 1)) != 0
BadSize(datasize) ==
  \/ EntrySize(datasize) > 4096
  \/ BitAnd(EntrySize(datasize), EntrySize(datasize) - 1) # 0

HeaderMismatchIdOnly(hdr, datasize) == hdr.id # FLASHLOG_ID

HeaderMismatchSameSize(hdr, datasize) ==
  hdr.id # FLASHLOG_ID \/ hdr.datasize = datasize

\* memcmp(hdr.id, FLASHLOG_ID, ...) != 0 || hdr.datasize != datasize
HeaderMismatch(hdr, datasize) ==
  hdr.id # FLASHLOG_ID \/ hdr.datasize # datasize

InitNumSlotsWholePartition(psize, datasize) ==
  UDiv(psize, datasize + ENTRY_HDR_SIZE)

\* (partition->size - FLASHLOG_SLOT0) / (datasize + sizeof(entry hdr)), unsigned
InitNumSlots(psize, datasize) ==
  UDiv(psize - FLASHLOG_SLOT0, datasize + ENTRY_HDR_SIZE)

\* state->current = state->newest; malloc of the entry buffer
OpenFinish(s, fl, io, nomem) ==
  LET s1 == [s EXCEPT !.current = s.newest]
  IN IF nomem
     THEN Result([s1 EXCEPT !.entrybuf = FALSE], fl, FLASHLOG_ERR_NOMEM, io)
     ELSE Result([s1 EXCEPT !.entrybuf = TRUE, !.logdata = TRUE, !.buf = NoBuf],
                 fl, FLASHLOG_ERR_OK, io)

\* the branch that initializes the log from scratch.  ub is what the build
\* does on the division by zero of line 62: "trap" or "allones".
OpenInit(s, fl, psize, datasize, failAt, nomem, ub) ==
  LET io1 == <<IoCall("read", 0, HDR_SIZE, ESP_OK)>>
      er == esp_partition_erase_range(fl, psize, 0, psize, failAt = 2)
      io2 == Append(io1, IoCall("erase", 0, psize, er.err))
      s1 == [s EXCEPT !.partition_err = er.err]
  IN IF er.err # ESP_OK THEN Result(s1, fl, FLASHLOG_ERR_ERASEERR, io2)
     ELSE IF datasize + ENTRY_HDR_SIZE = 0 /\ ub = "trap"
       THEN Result(s1, er.fl, TRAP, io2)
     ELSE
       LET hdr == [id |-> FLASHLOG_ID, datasize |-> datasize,
                   numslots |-> IF datasize + ENTRY_HDR_SIZE = 0
                                THEN -1 ELSE InitNumSlots(psize, datasize)]
           wr == esp_partition_write(er.fl, psize, 0, hdr, HDR_SIZE, failAt = 3)
           io3 == Append(io2, IoCall("write", 0, HDR_SIZE, wr.err))
           s2 == [s1 EXCEPT !.partition_err = wr.err]
       IN IF wr.err # ESP_OK THEN Result(s2, er.fl, FLASHLOG_ERR_WRITEERR, io3)
          ELSE OpenFinish([s2 EXCEPT !.numslots = hdr.numslots,
                                     !.highest_seqno = 0,
                                     !.oldest = 0, !.newest = 0, !.current = 0,
                                     !.numinuse = 0],
                          wr.fl, io3, nomem)

ScanStepFirstValid(acc, slot, seqno) ==
  IF seqno = UINT32_MAX THEN acc
  ELSE
    LET s1 == [acc.st EXCEPT !.numinuse = @ + 1]
        s2 == IF ULess(s1.highest_seqno, seqno)
              THEN [s1 EXCEPT !.highest_seqno = seqno, !.newest = slot]
              ELSE s1
    IN IF acc.oldest_seqno = UINT32_MAX
       THEN [acc EXCEPT !.st = [s2 EXCEPT !.oldest = slot], !.oldest_seqno = seqno]
       ELSE [acc EXCEPT !.st = s2]

\* one iteration of the loop over the entry headers (lines 76-88);
\* acc = [st, oldest_seqno, io, ok]
ScanStep(acc, slot, seqno) ==
  IF seqno = UINT32_MAX THEN acc
  ELSE
    LET s1 == [acc.st EXCEPT !.numinuse = @ + 1]
        s2 == IF ULess(s1.highest_seqno, seqno)
              THEN [s1 EXCEPT !.highest_seqno = seqno, !.newest = slot]
              ELSE s1
    IN IF ULess(seqno, acc.oldest_seqno)
       THEN [acc EXCEPT !.st = [s2 EXCEPT !.oldest = slot], !.oldest_seqno = seqno]
       ELSE [acc EXCEPT !.st = s2]

RECURSIVE ScanSlots(_, _, _, _, _, _)
ScanSlots(slot, acc, hdr, fl, psize, failAt) ==
  IF slot >= hdr.numslots THEN acc
  ELSE
    LET offset == FLASHLOG_SLOT0 + slot * (hdr.datasize + ENTRY_HDR_SIZE)
        rd == esp_partition_read(fl, psize, offset, ENTRY_HDR_SIZE, failAt = slot + 2)
        a1 == [acc EXCEPT !.st.partition_err = rd.err,
                          !.io = Append(@, IoCall("read", offset, ENTRY_HDR_SIZE, rd.err))]
    IN IF rd.err # ESP_OK THEN [a1 EXCEPT !.ok = FALSE]
       ELSE ScanSlots(slot + 1, ScanStep(a1, slot, rd.data.seqno), hdr, fl, psize, failAt)

\* the branch for a log that exists: numinuse is counted up from the value
\* the state object holds on entry (line 82; it is not reset)
OpenScan(s, hdr, fl, psize, failAt, nomem) ==
  LET s1 == [s EXCEPT !.numslots = hdr.numslots, !.highest_seqno = 0,
                      !.newest = 0, !.oldest = 0]
      acc0 == [st |-> s1, oldest_seqno |-> UINT32_MAX,
               io |-> <<IoCall("read", 0, HDR_SIZE, ESP_OK)>>, ok |-> TRUE]
      acc == ScanSlots(0, acc0, hdr, fl, psize, failAt)
  IN IF ~acc.ok THEN Result(acc.st, fl, FLASHLOG_ERR_READERR, acc.io)
     ELSE OpenFinish(acc.st, fl, acc.io, nomem)

flashlog_open(s, fl, psize, found, datasize, failAt, nomem, ub) ==
  IF ~found THEN Result(s, fl, FLASHLOG_ERR_NO_PARTITION, <<>>)
  ELSE IF BadSize(datasize)
    THEN Result([s EXCEPT !.partition = TRUE], fl, FLASHLOG_ERR_BADSIZE, <<>>)
  ELSE
    LET s1 == [s EXCEPT !.partition = TRUE, !.datasize = datasize]
        rd == esp_partition_read(fl, psize, 0, HDR_SIZE, failAt = 1)
        s2 == [s1 EXCEPT !.partition_err = rd.err]
    IN IF rd.err # ESP_OK
       THEN Result(s2, fl, FLASHLOG_ERR_READERR, <<IoCall("read", 0, HDR_SIZE, rd.err)>>)
       ELSE IF HeaderMismatch(rd.data, datasize)
         THEN OpenInit(s2, fl, psize, datasize, failAt, nomem, ub)
         ELSE OpenScan(s2, rd.data, fl, psize, failAt, nomem)

(***************************************************************************)
(* flashlog_close                                                          *)
(***************************************************************************)
flashlog_close(s, fl) ==
  Result([s EXCEPT !.entrybuf = FALSE, !.logdata = FALSE, !.buf = NoBuf],
         fl, FLASHLOG_ERR_OK, <<>>)

(***************************************************************************)
(* flashlog_add                                                            *)
(***************************************************************************)
\* if (numinuse > 0) { if (++newest >= numslots) newest = 0; }
AddTarget(s) ==
  IF s.numinuse > 0
  THEN IF s.newest + 1 >= s.numslots THEN 0 ELSE s.newest + 1
  ELSE s.newest

EraseOffsetNoSlot0(s, target) == target * (s.datasize + ENTRY_HDR_SIZE)

\* the offset flashlog_add erases at when the log is full
EraseOffset(s, target) == FLASHLOG_SLOT0 + target * (s.datasize + ENTRY_HDR_SIZE)

EvictOne(s, length) ==
  [s EXCEPT !.numinuse = @ - 1,
            !.oldest = IF s.oldest + 1 >= s.numslots THEN 0 ELSE s.oldest + 1]

EvictNoWrap(s, length) ==
  [s EXCEPT !.numinuse = @ - (4096 \div length),
            !.oldest = s.oldest + (4096 \div length)]

\* numinuse -= 4096/length; oldest += 4096/length, wrapped
Evict(s, length) ==
  LET o == s.oldest + (4096 \div length)
  IN [s EXCEPT !.numinuse = @ - (4096 \div length),
               !.oldest = IF o >= s.numslots THEN o - s.numslots ELSE o]

\* state->entrybuf->seqno = ++state->highest_seqno; ++state->numinuse
AssignSeqno(s) ==
  [s EXCEPT !.highest_seqno = IncU32(@), !.buf.seqno = IncU32(s.highest_seqno),
            !.numinuse = @ + 1]

\* s.buf.data holds what the caller put at state->logdata
flashlog_add(s, fl, psize, failAt) ==
  IF ~s.entrybuf THEN Result(s, fl, FLASHLOG_ERR_NOINIT, <<>>)
  ELSE
    LET s1 == [s EXCEPT !.newest = AddTarget(s)]
        offset == FLASHLOG_SLOT0 + s1.newest * (s.datasize + ENTRY_HDR_SIZE)
        length == s.datasize + ENTRY_HDR_SIZE
        full == s1.numinuse = s1.numslots
        er == esp_partition_erase_range(fl, psize, EraseOffset(s1, s1.newest),
                                        4096, failAt = 1)
        ioe == IF full THEN <<IoCall("erase", EraseOffset(s1, s1.newest), 4096, er.err)>>
               ELSE <<>>
    IN IF full /\ er.err # ESP_OK
       THEN Result([s1 EXCEPT !.partition_err = er.err], fl, FLASHLOG_ERR_ERASEERR, ioe)
       ELSE
         LET s2 == IF full THEN Evict([s1 EXCEPT !.partition_err = er.err], length)
                   ELSE s1
             fl2 == IF full THEN er.fl ELSE fl
             s3 == AssignSeqno(s2)
             wr == esp_partition_write(fl2, psize, offset, s3.buf, length,
                                       failAt = Len(ioe) + 1)
             iow == Append(ioe, IoCall("write", offset, length, wr.err))
             s4 == [s3 EXCEPT !.partition_err = wr.err]
         IN IF wr.err # ESP_OK THEN Result(s4, fl2, FLASHLOG_ERR_WRITEERR, iow)
            ELSE Result(s4, wr.fl, FLASHLOG_ERR_OK, iow)

(***************************************************************************)
(* flashlog_read and the flashlog_goto_xxx routines                        *)
(***************************************************************************)
ReadBadSlotNoWrap(s) ==
  s.numinuse = 0 \/ s.current < s.oldest \/ s.current > s.newest

ReadBadSlotNoBounds(s) ==
  \/ s.numinuse = 0
  \/ (s.newest >= s.oldest /\ (s.current < s.oldest \/ s.current > s.newest))
  \/ (s.current > s.newest /\ s.current < s.oldest)

\* the range check of lines 133-135, with C's precedence of && over ||
ReadBadSlot(s) ==
  \/ s.numinuse = 0
  \/ (s.newest >= s.oldest /\ (s.current < s.oldest \/ s.current > s.newest))
  \/ (s.newest < s.oldest /\ (s.current >= s.numslots \/ s.current < 0))
  \/ (s.current > s.newest /\ s.current < s.oldest)

flashlog_read_IgnoreErr(s, fl, psize, failAt) ==
  IF ~s.entrybuf THEN Result(s, fl, FLASHLOG_ERR_NOINIT, <<>>)
  ELSE IF ReadBadSlot(s) THEN Result(s, fl, FLASHLOG_ERR_BADSLOT, <<>>)
  ELSE
    LET length == s.datasize + ENTRY_HDR_SIZE
        offset == FLASHLOG_SLOT0 + s.current * (s.datasize + ENTRY_HDR_SIZE)
        rd == esp_partition_read(fl, psize, offset, length, failAt = 1)
    IN Result([s EXCEPT !.partition_err = rd.err, !.buf = rd.data], fl,
              FLASHLOG_ERR_OK, <<IoCall("read", offset, length, rd.err)>>)

flashlog_read(s, fl, psize, failAt) ==
  IF ~s.entrybuf THEN Result(s, fl, FLASHLOG_ERR_NOINIT, <<>>)
  ELSE IF ReadBadSlot(s) THEN Result(s, fl, FLASHLOG_ERR_BADSLOT, <<>>)
  ELSE
    LET length == s.datasize + ENTRY_HDR_SIZE
        offset == FLASHLOG_SLOT0 + s.current * (s.datasize + ENTRY_HDR_SIZE)
        rd == esp_partition_read(fl, psize, offset, length, failAt = 1)
        io == <<IoCall("read", offset, length, rd.err)>>
        s1 == [s EXCEPT !.partition_err = rd.err]
    IN IF rd.err # ESP_OK THEN Result(s1, fl, FLASHLOG_ERR_READERR, io)
       ELSE Result([s1 EXCEPT !.buf = rd.data], fl, FLASHLOG_ERR_OK, io)

flashlog_goto_newest(s, fl) ==
  IF s.numinuse = 0 THEN Result(s, fl, FLASHLOG_ERR_BADSLOT, <<>>)
  ELSE Result([s EXCEPT !.current = s.newest], fl, FLASHLOG_ERR_OK, <<>>)

flashlog_goto_oldest(s, fl) ==
  IF s.numinuse = 0 THEN Result(s, fl, FLASHLOG_ERR_BADSLOT, <<>>)
  ELSE Result([s EXCEPT !.current = s.oldest], fl, FLASHLOG_ERR_OK, <<>>)

flashlog_goto_next_PastNewest(s, fl) ==
  IF s.numinuse = 0 THEN Result(s, fl, FLASHLOG_ERR_BADSLOT, <<>>)
  ELSE Result([s EXCEPT !.current = IF s.current + 1 >= s.numslots THEN 0
                                    ELSE s.current + 1],
              fl, FLASHLOG_ERR_OK, <<>>)

flashlog_goto_next(s, fl) ==
  IF s.numinuse = 0 \/ s.current = s.newest
  THEN Result(s, fl, FLASHLOG_ERR_BADSLOT, <<>>)
  ELSE Result([s EXCEPT !.current = IF s.current + 1 >= s.numslots THEN 0
                                    ELSE s.current + 1],
              fl, FLASHLOG_ERR_OK, <<>>)

flashlog_goto_prev_NoWrap(s, fl) ==
  IF s.numinuse = 0 \/ s.current = s.oldest
  THEN Result(s, fl, FLASHLOG_ERR_BADSLOT, <<>>)
  ELSE Result([s EXCEPT !.current = s.current - 1], fl, FLASHLOG_ERR_OK, <<>>)

flashlog_goto_prev(s, fl) ==
  IF s.numinuse = 0 \/ s.current = s.oldest
  THEN Result(s, fl, FLASHLOG_ERR_BADSLOT, <<>>)
  ELSE Result([s EXCEPT !.current = IF s.current - 1 < 0 THEN s.numslots - 1
                                    ELSE s.current - 1],
              fl, FLASHLOG_ERR_OK, <<>>)

(***************************************************************************)
(* The state machine                                                       *)
(*   psize   : partition->size                                             *)
(*   fl      : the content of the flash partition                          *)
(*   st      : the caller's flashlog_state_t                               *)
(*   last    : the last API call: its name, argument, return value, the    *)
(*             Block Store calls it issued and, for flashlog_open, what    *)
(*             the flash held when it was called and the Block Store calls *)
(*             of the API call that was interrupted just before it         *)
(*   atclose : oldest/newest/numinuse as they were at the last             *)
(*             flashlog_close of an open log, while the flash is unchanged *)
(*   faults  : how many Block Store calls and mallocs have failed so far   *)
(*   live    : how many buffers malloc returned and free has not been      *)
(*             given back                                                  *)
(***************************************************************************)
VARIABLES psize, fl, st, last, atclose, faults, live

vars == <<psize, fl, st, last, atclose, faults, live>>

NoSnap == [valid |-> FALSE, datasize |-> 0, oldest |-> 0, newest |-> 0, numinuse |-> 0]
Snap(s) == [valid |-> TRUE, datasize |-> s.datasize, oldest |-> s.oldest,
            newest |-> s.newest, numinuse |-> s.numinuse]

\* the slots that hold an entry: their seqno is not the unused mark
ValidSlots(f) == {i \in DOMAIN f.slots : f.slots[i].seqno # UINT32_MAX}

Init ==
  /\ psize \in PartitionSizes
  /\ fl \in {[hdr |-> ErasedHdr, slots |-> NoSlots], [hdr |-> GarbageHdr, slots |-> NoSlots]}
  /\ st = ZeroState
  /\ last = [call |-> "none", arg |-> 0, ret |-> FLASHLOG_ERR_OK, io |-> <<>>,
             pre |-> <<>>]
  /\ atclose = NoSnap
  /\ faults = 0
  /\ live = 0

\* whether a Block Store call or the malloc of an API call was made to fail
Injected(r) ==
  \/ r.ret = FLASHLOG_ERR_NOMEM
  \/ \E i \in 1..Len(r.io) : r.io[i].err = ESP_FAIL

\* the malloc of line 91 is reached, and returns a buffer, exactly in the
\* calls of flashlog_open that return FLASHLOG_ERR_OK
Mallocs(call, r) == IF call = "open" /\ r.ret = FLASHLOG_ERR_OK THEN 1 ELSE 0

\* if (state->entrybuf) free((void *)state->entrybuf), on the state passed
Frees(call, s) == IF call = "close" /\ s.entrybuf THEN 1 ELSE 0

Apply(call, arg, r) ==
  /\ st' = r.st
  /\ fl' = r.fl
  /\ last' = [call |-> call, arg |-> arg, ret |-> r.ret, io |-> r.io,
              pre |-> IF call = "open"
                      THEN <<fl.hdr.id, fl.hdr.datasize, Cardinality(ValidSlots(fl)),
                             IF last.call = "restart" THEN last.io ELSE <<>>>>
                      ELSE <<>>]
  /\ psize' = psize
  /\ atclose' = IF call = "close" /\ st.entrybuf THEN Snap(st)
                ELSE IF r.fl # fl THEN NoSnap
                ELSE atclose
  /\ faults' = IF Injected(r) THEN faults + 1 ELSE faults
  /\ faults' <= MaxFaults
  /\ live' = live + Mallocs(call, r) - Frees(call, st)

\* zeroed: the caller passes a zero-initialised state object; otherwise the
\* object it used before
Open(datasize, zeroed, found, failAt, nomem, ub) ==
  /\ ~st.entrybuf
  /\ Apply("open", datasize,
           flashlog_open(IF zeroed THEN ZeroState ELSE st, fl, psize, found,
                         datasize, failAt, nomem, ub))

\* the caller passes the state object it used before, closed or not
OpenHeld(datasize, nomem) ==
  Apply("open", datasize,
        flashlog_open(st, fl, psize, TRUE, datasize, 0, nomem, "trap"))

Close == Apply("close", 0, flashlog_close(st, fl))

\* the caller puts d at state->logdata and calls flashlog_add
Add(d, failAt) ==
  /\ st.highest_seqno < MaxSeq
  /\ Apply("add", 0,
           flashlog_add(IF st.logdata THEN [st EXCEPT !.buf.data = d] ELSE st,
                        fl, psize, failAt))

Read(failAt) == Apply("read", 0, flashlog_read(st, fl, psize, failAt))
GotoNewest == Apply("goto_newest", 0, flashlog_goto_newest(st, fl))
GotoOldest == Apply("goto_oldest", 0, flashlog_goto_oldest(st, fl))
GotoNext == Apply("goto_next", 0, flashlog_goto_next(st, fl))
GotoPrev == Apply("goto_prev", 0, flashlog_goto_prev(st, fl))

\* the caller assigns state->current itself (the struct is the caller's)
SetCurrent(c) ==
  /\ st.entrybuf
  /\ Apply("set_current", c,
           Result([st EXCEPT !.current = c], fl, FLASHLOG_ERR_OK, <<>>))

\* what the first j of the Block Store calls io have made of the flash f.
\* The only write of flashlog_open and of flashlog_add is their last Block
\* Store call, so the calls before an interruption are reads and erases.
RECURSIVE FlashAfter(_, _, _, _)
FlashAfter(f, size, io, j) ==
  IF j = 0 THEN f
  ELSE LET g == FlashAfter(f, size, io, j - 1)
       IN IF io[j].op = "erase"
          THEN esp_partition_erase_range(g, size, io[j].offset, io[j].len,
                                         io[j].err = ESP_FAIL).fl
          ELSE g

\* the processor restarts after the first j Block Store calls of the API
\* call with result r: the flash keeps what these calls made of it, the RAM
\* is lost and the state object is zero-initialised again
Restart(datasize, r, j) ==
  /\ fl' = IF j = Len(r.io) THEN r.fl ELSE FlashAfter(fl, psize, r.io, j)
  /\ st' = ZeroState
  /\ last' = [call |-> "restart", arg |-> datasize, ret |-> "interrupted",
              io |-> SubSeq(r.io, 1, j), pre |-> <<>>]
  /\ atclose' = NoSnap
  /\ live' = 0
  /\ UNCHANGED <<psize, faults>>

AddInterrupted ==
  /\ st.entrybuf /\ st.highest_seqno < MaxSeq
  /\ LET r == flashlog_add([st EXCEPT !.buf.data = "A"], fl, psize, 0)
     IN \E j \in 0..Len(r.io) : Restart(st.datasize, r, j)

OpenInterrupted(datasize) ==
  /\ ~st.entrybuf /\ ~BadSize(datasize)
  /\ LET r == flashlog_open(ZeroState, fl, psize, TRUE, datasize, 0, FALSE, "trap")
     IN \E j \in 0..Len(r.io) : Restart(datasize, r, j)

Navigate == GotoNewest \/ GotoOldest \/ GotoNext \/ GotoPrev

\* no Block Store failure is injected; every flashlog_open gets a
\* zero-initialised state object
Next ==
  \/ \E ds \in DataSizes, found \in BOOLEAN : Open(ds, TRUE, found, 0, FALSE, "trap")
  \/ Close
  \/ \E d \in LogData : Add(d, 0)
  \/ Read(0)
  \/ Navigate

Spec == Init /\ [][Next]_vars

\* a closed state object may be passed to flashlog_open again, as well as a
\* zero-initialised one
NextReopen ==
  \/ \E ds \in DataSizes : Open(ds, TRUE, TRUE, 0, FALSE, "trap")
  \/ \E ds \in DataSizes :
        st.numinuse < MaxStale /\ Open(ds, FALSE, TRUE, 0, FALSE, "trap")
  \/ Close
  \/ Add("A", 0)
  \/ GotoNewest
  \/ Read(0)

SpecReopen == Init /\ [][NextReopen]_vars

\* any one Block Store call of an API call may fail, and malloc
NextFail ==
  \/ \E ds \in DataSizes, f \in 0..MaxFailAt, nomem \in BOOLEAN :
        Open(ds, TRUE, TRUE, f, nomem, "trap")
  \/ Close
  \/ \E f \in 0..MaxFailAt : Add("A", f)
  \/ \E f \in 0..MaxFailAt : Read(f)
  \/ GotoNewest

SpecFail == Init /\ [][NextFail]_vars

\* flashlog_open and flashlog_close are called on one state object in any
\* order; malloc may fail
NextOwn ==
  \/ \E ds \in DataSizes, nomem \in BOOLEAN :
        live < MaxLive /\ st.numinuse < MaxStale /\ OpenHeld(ds, nomem)
  \/ Close
  \/ Add("A", 0)

SpecOwn == Init /\ [][NextOwn]_vars

\* flashlog_read with state->current anywhere in and around the ring
NextRange ==
  \/ \E ds \in RangeDataSizes : Open(ds, TRUE, TRUE, 0, FALSE, "trap")
  \/ Close
  \/ Add("A", 0)
  \/ \E c \in (0 - MaxOut)..(st.numslots - 1 + MaxOut) : SetCurrent(c)
  \/ Read(0)

SpecRange == Init /\ [][NextRange]_vars

\* flashlog_add and flashlog_open may be interrupted by a restart before,
\* between and after their Block Store calls
NextRestart ==
  \/ \E ds \in DataSizes : Open(ds, TRUE, TRUE, 0, FALSE, "trap")
  \/ Close
  \/ Add("A", 0)
  \/ AddInterrupted
  \/ \E ds \in DataSizes : OpenInterrupted(ds)

SpecRestart == Init /\ [][NextRestart]_vars

\* the size check of flashlog_open over a range of datasize values
NextSize ==
  \E ds \in (0 - MaxNegSize)..MaxDataSize, ub \in {"trap", "allones"} :
     last.call = "none" /\ Open(ds, TRUE, TRUE, 0, FALSE, ub)

SpecSize == Init /\ [][NextSize]_vars

(***************************************************************************)
(* Properties                                                              *)
(***************************************************************************)
\* the slots from oldest on, numinuse of them, modulo numslots
Arc(s) ==
  IF s.numinuse <= 0 \/ s.numslots <= 0 THEN {}
  ELSE {(s.oldest + j) % s.numslots : j \in 0..(s.numinuse - 1)}

I1(s, f) ==
  /\ 0 <= s.numinuse /\ s.numinuse <= s.numslots
  /\ ValidSlots(f) = Arc(s)
  /\ s.numinuse > 0 => (s.oldest + s.numinuse - 1) % s.numslots = s.newest

Erased(call) == call.op = "erase" /\ call.err = ESP_OK
Evicted(l) == l.call = "add" /\ \E i \in 1..Len(l.io) : Erased(l.io[i])

C3_EvictionGranularity ==
  [][(last'.call = "add" /\ last'.ret = FLASHLOG_ERR_OK) =>
       LET k == 4096 \div (st.datasize + ENTRY_HDR_SIZE)
           n == st.numslots
           oldestK == {(st.oldest + j) % n : j \in 0..(k - 1)}
           rd == flashlog_read(flashlog_goto_oldest(st', fl').st, fl', psize, 0)
       IN IF st.numinuse = st.numslots
          THEN /\ st'.numinuse = n - k + 1
               /\ st'.oldest = (st.oldest + k) % n
               /\ ValidSlots(fl') = (ValidSlots(fl) \ oldestK) \cup {st'.newest}
               /\ \A i \in ValidSlots(fl) \ oldestK :
                     i # st'.newest => fl'.slots[i] = fl.slots[i]
               /\ rd.ret = FLASHLOG_ERR_OK
               /\ rd.st.buf = IF k = n THEN st'.buf ELSE fl.slots[(st.oldest + k) % n]
          ELSE /\ \A i \in ValidSlots(fl) : fl'.slots[i] = fl.slots[i]
               /\ st'.numinuse = st.numinuse + 1
               /\ st'.oldest = st.oldest]_vars

\* an eviction that removed several entries and kept others, from a ring
\* whose oldest entry was not at slot 0
C3_Witness ==
  /\ Evicted(last) /\ last.ret = FLASHLOG_ERR_OK
  /\ 4096 \div (st.datasize + ENTRY_HDR_SIZE) > 1
  /\ st.numslots > 4096 \div (st.datasize + ENTRY_HDR_SIZE)
  /\ st.oldest = 0 /\ st.newest # 0

\* C8 (erase scope of append): an erase done by flashlog_add covers exactly
\* the 4096-aligned erase unit that holds the append target slot: it starts
\* at a multiple of 4096 past the header block, lies inside the partition,
\* and changes neither the header nor any slot outside that unit.
C8_EraseScope ==
  [][\A i \in 1..Len(last'.io) :
       (last'.call = "add" /\ Erased(last'.io[i])) =>
         LET off == last'.io[i].offset
             tgt == SlotOffset(fl, st'.newest)
         IN /\ off % 4096 = 0 /\ last'.io[i].len = 4096
            /\ off >= FLASHLOG_SLOT0 /\ off + 4096 <= psize
            /\ off <= tgt /\ tgt + SlotLen(fl) <= off + 4096
            /\ fl'.hdr = fl.hdr
            /\ DOMAIN fl'.slots = DOMAIN fl.slots
            /\ \A j \in DOMAIN fl.slots :
                  (SlotOffset(fl, j) < off \/ SlotOffset(fl, j) >= off + 4096)
                     => fl'.slots[j] = fl.slots[j]]_vars

\* an eviction in the second erase unit of the slots, with entries kept in
\* the first
C8_Witness ==
  /\ Evicted(last) /\ last.ret = FLASHLOG_ERR_OK
  /\ last.io[1].offset > FLASHLOG_SLOT0
  /\ 0 \in ValidSlots(fl)

\* C9 (reinitialization): flashlog_open on a partition whose header is valid
\* but records another datasize erases every slot, writes a header with the
\* new datasize and numslots = (size - 4096) / (datasize + 4), and returns an
\* empty log (numinuse = 0, highest_seqno = 0) in which nothing can be read.
C9_Reinitialization ==
  [][(/\ last'.call = "open" /\ last'.ret = FLASHLOG_ERR_OK
      /\ fl.hdr.id = FLASHLOG_ID /\ fl.hdr.datasize # last'.arg) =>
       LET n == (psize - 4096) \div (last'.arg + 4)
       IN /\ fl'.hdr = [id |-> FLASHLOG_ID, datasize |-> last'.arg, numslots |-> n]
          /\ DOMAIN fl'.slots = 0..(n - 1)
          /\ \A i \in DOMAIN fl'.slots : fl'.slots[i] = ErasedSlot
          /\ st'.entrybuf /\ st'.datasize = last'.arg /\ st'.numslots = n
          /\ st'.numinuse = 0 /\ st'.highest_seqno = 0
          /\ flashlog_read(st', fl', psize, 0).ret = FLASHLOG_ERR_BADSLOT
          /\ flashlog_goto_oldest(st', fl').ret = FLASHLOG_ERR_BADSLOT
          /\ flashlog_goto_newest(st', fl').ret = FLASHLOG_ERR_BADSLOT]_vars

\* a successful open with another datasize of a log that held entries
C9_Witness ==
  /\ last.call = "open" /\ last.ret = FLASHLOG_ERR_OK
  /\ last.pre[1] = FLASHLOG_ID /\ last.pre[2] # last.arg /\ last.pre[3] > 1

\* C2 (recovery idempotence): flashlog_close followed by a successful
\* flashlog_open with the same datasize gives the oldest, newest and numinuse
\* of before the close, and gotoNewest+read gives the entry that was newest,
\* whether the state object passed is zero-initialised or the one closed.
C2_RecoveryIdempotent ==
  (/\ last.call = "open" /\ last.ret = FLASHLOG_ERR_OK
   /\ atclose.valid /\ atclose.datasize = last.arg) =>
     /\ st.oldest = atclose.oldest
     /\ st.newest = atclose.newest
     /\ st.numinuse = atclose.numinuse
     /\ atclose.numinuse > 0 =>
          LET rd == flashlog_read(flashlog_goto_newest(st, fl).st, fl, psize, 0)
          IN rd.ret = FLASHLOG_ERR_OK /\ rd.st.buf = fl.slots[atclose.newest]

\* the slots from oldest to newest in that order, modulo numslots
ArcSeq(s) ==
  [p \in 1..(((s.newest - s.oldest) % s.numslots) + 1) |->
      (s.oldest + p - 1) % s.numslots]

\* C4 (monotonic sequencing): a successful flashlog_add stores the seqno
\* highest_seqno was advanced to, and while the log is open and not empty the
\* stored seqnos strictly increase along the arc from oldest to newest, no
\* two valid slots hold the same seqno, and highest_seqno is the seqno stored
\* at newest.
C4_MonotonicSeqnos ==
  (st.entrybuf /\ st.numinuse > 0) =>
     /\ st.newest \in DOMAIN fl.slots
     /\ fl.slots[st.newest].seqno = st.highest_seqno
     /\ (last.call = "add" /\ last.ret = FLASHLOG_ERR_OK)
           => fl.slots[st.newest].seqno = st.buf.seqno
     /\ \A i, j \in ValidSlots(fl) : i # j => fl.slots[i].seqno # fl.slots[j].seqno
     /\ \A p, q \in DOMAIN ArcSeq(st) :
           p < q => ULess(fl.slots[ArcSeq(st)[p]].seqno, fl.slots[ArcSeq(st)[q]].seqno)

\* C5 (append failure keeps I1): after a flashlog_add that returned
\* FLASHLOG_ERR_ERASEERR or FLASHLOG_ERR_WRITEERR, oldest, newest and
\* numinuse still describe exactly the valid slots of the flash.
C5_FailedAddKeepsI1 ==
  (last.call = "add"
   /\ last.ret \in {FLASHLOG_ERR_ERASEERR, FLASHLOG_ERR_WRITEERR}) => I1(st, fl)

ReturnsOfNavigation(s, call, ret, readOk) ==
  IF s.numinuse = 0 THEN ret = FLASHLOG_ERR_BADSLOT
  ELSE CASE call = "goto_next" ->
              ret = IF s.current = s.newest THEN FLASHLOG_ERR_BADSLOT ELSE FLASHLOG_ERR_OK
         [] call = "goto_prev" ->
              ret = IF s.current = s.oldest THEN FLASHLOG_ERR_BADSLOT ELSE FLASHLOG_ERR_OK
         [] call = "read" ->
              ret = IF readOk THEN FLASHLOG_ERR_OK ELSE FLASHLOG_ERR_BADSLOT
         [] OTHER -> ret = FLASHLOG_ERR_OK

NavigationCalls == {"goto_oldest", "goto_newest", "goto_next", "goto_prev", "read"}

\* C6 as claimed (traversal bounds): on an open empty log gotoOldest,
\* gotoNewest, gotoNext, gotoPrev and read fail with FLASHLOG_ERR_BADSLOT; on
\* an open log that is not empty gotoNext fails exactly when current = newest,
\* gotoPrev exactly when current = oldest, and gotoOldest, gotoNewest and
\* read succeed.
C6_TraversalBounds ==
  [][(st.entrybuf /\ last'.call \in NavigationCalls) =>
       ReturnsOfNavigation(st, last'.call, last'.ret, TRUE)]_vars

\* C6 as amended: the same, but read succeeds exactly when current is one of
\* the slots of the arc from oldest to newest.
C6_TraversalBoundsOnArc ==
  [][(st.entrybuf /\ last'.call \in NavigationCalls) =>
       ReturnsOfNavigation(st, last'.call, last'.ret, st.current \in Arc(st))]_vars

\* flashlog_read refused the current slot of an open log that is not empty
\* and whose arc wraps past slot 0
C6_Witness ==
  /\ st.entrybuf /\ st.numinuse > 0 /\ st.newest < st.oldest
  /\ last.call = "read" /\ last.ret = FLASHLOG_ERR_BADSLOT

\* C7 as claimed (cursor stays on the arc): whenever numinuse > 0, current
\* is one of the slots of the arc from oldest to newest.
C7_CursorOnArc == st.numinuse > 0 => st.current \in Arc(st)

\* C7 as amended: current is off the arc of a log that is not empty only
\* after a flashlog_add that evicted, and from then until flashlog_goto_oldest,
\* flashlog_goto_newest or flashlog_open puts it back.
C7_CursorLeavesArcOnlyByEviction ==
  [][(st'.numinuse > 0 /\ st'.current \notin Arc(st')) =>
       \/ Evicted(last')
       \/ /\ st.numinuse > 0 /\ st.current \notin Arc(st)
          /\ last'.call \notin {"goto_oldest", "goto_newest", "open"}]_vars

\* an eviction left current in the erased unit, and flashlog_read has
\* refused it since
C7_Witness ==
  /\ st.entrybuf /\ st.numinuse > 0 /\ st.current \notin Arc(st)
  /\ last.call = "read" /\ last.ret = FLASHLOG_ERR_BADSLOT

\* the datasize values the header file lists
ListedDataSizes == {4, 12, 28, 60, 124, 252, 508, 1020, 2044, 4092}

\* C10 (size validation): flashlog_open returns FLASHLOG_ERR_BADSIZE, and has
\* called no Block Store routine, exactly for a datasize outside
\* {4, 12, 28, 60, 124, 252, 508, 1020, 2044, 4092}.
C10_SizeValidation ==
  last.call = "open" =>
     /\ (last.ret = FLASHLOG_ERR_BADSIZE) = (last.arg \notin ListedDataSizes)
     /\ last.ret = FLASHLOG_ERR_BADSIZE => last.io = <<>>

\* the fields of flashlog_state_t that locate the log's entries
CursorFields(s) == <<s.oldest, s.newest, s.current, s.numinuse, s.highest_seqno>>

\* C11 (NotInitialized): flashlog_add, flashlog_read and the four
\* flashlog_goto_xxx routines, called on a state that was closed or whose
\* flashlog_open failed, return FLASHLOG_ERR_NOINIT, call no Block Store
\* routine and change no cursor field.
C11_NotInitialized ==
  [][(/\ ~st.entrybuf /\ last.call # "none"
      /\ last'.call \in NavigationCalls \cup {"add"}) =>
        /\ last'.ret = FLASHLOG_ERR_NOINIT
        /\ last'.io = <<>>
        /\ CursorFields(st') = CursorFields(st)]_vars

\* a Block Store call that changes bytes of the header block
TouchesHeader(call) == call.op \in {"write", "erase"} /\ call.offset < FLASHLOG_SLOT0

\* C12 (header immutability): on a partition that holds a valid header,
\* neither flashlog_add nor flashlog_open with the datasize of that header
\* writes or erases any byte at offsets 0..4095, and such a flashlog_open
\* calls esp_partition_read only.
C12_HeaderImmutable ==
  [][(/\ fl.hdr.id = FLASHLOG_ID
      /\ \/ last'.call = "add"
         \/ last'.call = "open" /\ last'.arg = fl.hdr.datasize) =>
        /\ fl'.hdr = fl.hdr
        /\ \A i \in 1..Len(last'.io) : ~TouchesHeader(last'.io[i])
        /\ last'.call = "open" =>
              \A i \in 1..Len(last'.io) : last'.io[i].op = "read"]_vars

\* flashlog_open found the header of a log whose arc had wrapped by
\* evictions, and scanned its slots
C12_Witness ==
  /\ last.call = "open" /\ last.ret = FLASHLOG_ERR_OK
  /\ last.pre[1] = FLASHLOG_ID /\ last.pre[2] = last.arg
  /\ Len(last.io) > 2 /\ st.newest < st.oldest

\* C13 (buffer ownership): over any sequence of flashlog_open and
\* flashlog_close calls on one state object, the buffers allocated and not
\* yet freed are at most one, and it is the one state->entrybuf points to (so
\* that flashlog_close frees it); a flashlog_open that fails leaves no more
\* buffers allocated than there were; a flashlog_close of a closed state
\* frees nothing.
C13_BufferOwnership ==
  [][/\ live' = IF st'.entrybuf THEN 1 ELSE 0
     /\ (last'.call = "open" /\ last'.ret # FLASHLOG_ERR_OK) => live' <= live
     /\ (last'.call = "close" /\ ~st.entrybuf) => live' = live]_vars

\* C14 (capacity, P1): after flashlog_open has initialised a partition of
\* size C that held no log, for datasize S, the header in flash and the state
\* both have numslots = floor((C - 4096) / (S + 4)), and numinuse = 0 and
\* oldest = newest = current = 0.
C14_Capacity ==
  (/\ last.call = "open" /\ last.ret = FLASHLOG_ERR_OK
   /\ last.pre[1] # FLASHLOG_ID /\ last.arg + 4 > 0) =>
     LET n == (psize - 4096) \div (last.arg + 4)
     IN /\ fl.hdr = [id |-> FLASHLOG_ID, datasize |-> last.arg, numslots |-> n]
        /\ st.numslots = n /\ st.datasize = last.arg
        /\ st.numinuse = 0
        /\ st.oldest = 0 /\ st.newest = 0 /\ st.current = 0

\* a partition of three erase units that held no log was initialised for
\* datasize 12: 512 slots
C14_Witness ==
  /\ last.call = "open" /\ last.ret = FLASHLOG_ERR_OK
  /\ last.pre[1] # FLASHLOG_ID /\ last.arg = 12
  /\ psize = 3 * ERASE_SIZE /\ fl.hdr.numslots = 512 /\ st.numslots = 512

\* a caller's loop: flashlog_read, then flashlog_goto_next (forward) or
\* flashlog_goto_prev, until the goto fails or fuel calls were made; seen
\* collects the seqnos read
RECURSIVE Walk(_, _, _, _, _, _)
Walk(s, f, size, forward, fuel, seen) ==
  LET rd == flashlog_read(s, f, size, 0)
      got == Append(seen, rd.st.buf.seqno)
      go == IF forward THEN flashlog_goto_next(rd.st, f)
            ELSE flashlog_goto_prev(rd.st, f)
  IN IF rd.ret # FLASHLOG_ERR_OK THEN [ok |-> FALSE, seen |-> seen, st |-> rd.st]
     ELSE IF go.ret # FLASHLOG_ERR_OK
       THEN [ok |-> go.ret = FLASHLOG_ERR_BADSLOT, seen |-> got, st |-> go.st]
     ELSE IF fuel = 0 THEN [ok |-> FALSE, seen |-> got, st |-> go.st]
     ELSE Walk(go.st, f, size, forward, fuel - 1, got)

Increasing(seq) == \A p, q \in DOMAIN seq : p < q => ULess(seq[p], seq[q])
Reversed(seq) == [p \in DOMAIN seq |-> seq[Len(seq) + 1 - p]]

\* C15 (complete bidirectional traversal): on every open log that is not
\* empty, flashlog_goto_oldest followed by read and goto_next in turn reads
\* exactly numinuse entries, their seqnos strictly increasing, and goto_next
\* then fails with FLASHLOG_ERR_BADSLOT at newest; flashlog_goto_newest
\* followed by read and goto_prev in turn reads the same entries in the
\* opposite order, and goto_prev then fails at oldest.
C15_CompleteTraversal ==
  (st.entrybuf /\ st.numinuse > 0) =>
     LET fw == Walk(flashlog_goto_oldest(st, fl).st, fl, psize, TRUE, st.numslots, <<>>)
         bw == Walk(flashlog_goto_newest(st, fl).st, fl, psize, FALSE, st.numslots, <<>>)
     IN /\ fw.ok /\ Len(fw.seen) = st.numinuse /\ Increasing(fw.seen)
        /\ fw.st.current = st.newest
        /\ bw.ok /\ bw.seen = Reversed(fw.seen)
        /\ bw.st.current = st.oldest

\* on a log of several entries whose arc wraps past slot 0, the caller
\* walked forward until flashlog_goto_next failed at newest
C15_Witness ==
  /\ st.entrybuf /\ st.numinuse > 2 /\ st.newest < st.oldest
  /\ last.call = "goto_next" /\ last.ret = FLASHLOG_ERR_BADSLOT
  /\ st.current = st.newest

\* the slots met going from oldest up to newest, modulo numslots
OldestToNewest(s) == {ArcSeq(s)[p] : p \in DOMAIN ArcSeq(s)}

\* C16 (read range check): flashlog_read on an open log returns
\* FLASHLOG_ERR_BADSLOT exactly when numinuse = 0 or current is not one of
\* the slots from oldest to newest modulo numslots, wherever current is,
\* outside 0..numslots-1 included; otherwise it reads the slot at current
\* into the entry buffer, and the seqno it reads is not the unused mark.
C16_ReadRangeCheck ==
  [][(st.entrybuf /\ last'.call = "read") =>
       IF st.numinuse = 0 \/ st.current \notin OldestToNewest(st)
       THEN last'.ret = FLASHLOG_ERR_BADSLOT /\ last'.io = <<>>
       ELSE /\ last'.ret = FLASHLOG_ERR_OK
            /\ last'.io = <<IoCall("read", SlotOffset(fl, st.current),
                                   SlotLen(fl), ESP_OK)>>
            /\ st'.buf = fl.slots[st.current]
            /\ st'.buf.seqno # UINT32_MAX]_vars

\* flashlog_read refused a current past the last slot of a ring whose arc
\* wraps past slot 0
C16_Witness ==
  /\ st.entrybuf /\ st.numinuse > 1 /\ st.newest < st.oldest
  /\ st.current >= st.numslots
  /\ last.call = "read" /\ last.ret = FLASHLOG_ERR_BADSLOT

\* the flashlog_error for a failure of each Block Store routine
ErrorOf(op) ==
  CASE op = "read" -> FLASHLOG_ERR_READERR
    [] op = "write" -> FLASHLOG_ERR_WRITEERR
    [] op = "erase" -> FLASHLOG_ERR_ERASEERR

\* C17 (I/O failure propagation): when a Block Store read, write or erase
\* fails inside flashlog_open, flashlog_add or flashlog_read, it is the last
\* Block Store call of that operation (no further call, no retry), the
\* operation returns FLASHLOG_ERR_READERR, _WRITEERR or _ERASEERR according
\* to the call that failed, and partition_err holds the error code of that
\* call; an operation whose Block Store calls all succeed returns none of
\* the three.
C17_FailurePropagation ==
  /\ \A i \in 1..Len(last.io) :
        last.io[i].err # ESP_OK =>
          /\ i = Len(last.io)
          /\ last.ret = ErrorOf(last.io[i].op)
          /\ st.partition_err = last.io[i].err
  /\ last.ret \in {FLASHLOG_ERR_READERR, FLASHLOG_ERR_WRITEERR, FLASHLOG_ERR_ERASEERR}
        => last.io # <<>> /\ last.io[Len(last.io)].err # ESP_OK

\* the write of flashlog_add failed after its eviction erase had succeeded
C17_Witness ==
  /\ last.call = "add" /\ last.ret = FLASHLOG_ERR_WRITEERR
  /\ Len(last.io) = 2 /\ Erased(last.io[1])
  /\ last.io[2].err = ESP_FAIL /\ st.partition_err = ESP_FAIL

\* the flash as the write of a flashlog_add finds it: after the erase of the
\* same call, if there was one
FlashAtWrite(f, size, io) ==
  IF Len(io) = 2 /\ Erased(io[1])
  THEN esp_partition_erase_range(f, size, io[1].offset, io[1].len, FALSE).fl
  ELSE f

\* C18 (program-only writes): over opens, closes and appends, every slot
\* write of flashlog_add that the Block Store accepts goes to the slot after
\* the previous newest modulo numslots (to newest itself when the log is
\* empty), and that slot is unused (seqno 0xFFFFFFFF) when it is written, so
\* that the slot then holds the entry as written.
C18_ProgramOnlyWrites ==
  [][\A i \in 1..Len(last'.io) :
       (last'.call = "add" /\ last'.io[i].op = "write"
        /\ last'.io[i].err = ESP_OK) =>
          LET tgt == SlotIndex(fl, last'.io[i].offset)
          IN /\ tgt \in DOMAIN fl.slots
             /\ last'.io[i].offset = SlotOffset(fl, tgt)
             /\ tgt = IF st.numinuse > 0 THEN (st.newest + 1) % st.numslots
                      ELSE st.newest
             /\ FlashAtWrite(fl, psize, last'.io).slots[tgt] = ErasedSlot
             /\ fl'.slots[tgt] = st'.buf]_vars

\* the valid slot with the lowest, and with the highest, stored seqno
MinSeqSlot(f) ==
  CHOOSE i \in ValidSlots(f) :
     \A j \in ValidSlots(f) : j = i \/ ULess(f.slots[i].seqno, f.slots[j].seqno)
MaxSeqSlot(f) ==
  CHOOSE i \in ValidSlots(f) :
     \A j \in ValidSlots(f) : j = i \/ ULess(f.slots[j].seqno, f.slots[i].seqno)

\* C19 (restart recovery): after a restart that interrupted flashlog_add or
\* flashlog_open before, between or after its Block Store calls,
\* flashlog_open with the same datasize on a zero-initialised state succeeds
\* and keeps the entries the flash holds; numinuse is the number of valid
\* slots, oldest is the slot with the lowest seqno, newest and current the
\* slot with the highest, highest_seqno is that seqno, the valid slots are
\* the arc from oldest to newest (I1) and the seqnos increase along it (I3).
C19_RestartRecovery ==
  [][(last.call = "restart" /\ last'.call = "open" /\ last'.arg = last.arg) =>
       /\ last'.ret = FLASHLOG_ERR_OK
       /\ (fl.hdr.id = FLASHLOG_ID /\ fl.hdr.datasize = last.arg) => fl' = fl
       /\ st'.numinuse = Cardinality(ValidSlots(fl'))
       /\ I1(st', fl')
       /\ ValidSlots(fl') # {} =>
            /\ st'.oldest = MinSeqSlot(fl')
            /\ st'.newest = MaxSeqSlot(fl')
            /\ st'.current = st'.newest
            /\ st'.highest_seqno = fl'.slots[st'.newest].seqno
            /\ Increasing([p \in DOMAIN ArcSeq(st') |-> fl'.slots[ArcSeq(st')[p]].seqno])]_vars

\* flashlog_add was interrupted between its eviction erase and its write,
\* and the flashlog_open after the restart found the entries that were left,
\* the oldest of them not at slot 0
C19_Witness ==
  /\ last.call = "open" /\ last.ret = FLASHLOG_ERR_OK
  /\ Len(last.pre[4]) = 1 /\ Erased(last.pre[4][1])
  /\ last.pre[4][1].offset >= FLASHLOG_SLOT0
  /\ st.numinuse > 1 /\ st.oldest # 0

=============================================================================
